---------------------------- MODULE Spec2Model ----------------------------
(***************************************************************************)
(* Multiband equalizer of SignalProcessingMultiBandEQ.py: the three        *)
(* strategies process_rfft, process_hann and process_subcomp and the       *)
(* shared normalize_waveform, as a state machine over one call.            *)
(*                                                                         *)
(* Numbers are fixed point.  A linear quantity v (a sample, a spectral     *)
(* value, a gain factor) is the integer v * Unit.  A decibel quantity d is *)
(* the integer d * DbUnit.  A frequency f in Hz over a spectrum of M bins  *)
(* is compared as f * 2 * (M - 1) against k * sample_rate, which is exact. *)
(* NaN is a reserved value that every operation propagates, as IEEE        *)
(* arithmetic does.                                                        *)
(***************************************************************************)
EXTENDS Integers, Sequences, FiniteSets, TLC

\* ------------------------------------------------------------------ bounds
MaxBatch == 2
MaxChannels == 3
MaxRank == 4
MaxGainDb == 30
MaxOverDb == 40

\* ------------------------------------------------------- fixed-point scale
Unit == 100 * 100
DbUnit == 16 * 10
Decade == 20 * DbUnit
NaN == -(2^30)

Abs(a) == IF a < 0 THEN -a ELSE a
Sgn(a) == IF a < 0 THEN -1 ELSE 1
Min(a, b) == IF a < b THEN a ELSE b
Max(a, b) == IF a > b THEN a ELSE b
IsNaN(a) == a = NaN

\* a / b rounded to nearest, b > 0, any sign of a
DivRound(a, b) == Sgn(a) * ((Abs(a) + b \div 2) \div b)

\* a * g / Unit for a factor g >= 0, by digits of base Unit to stay in 32 bits
MulFix(a, g) ==
    IF IsNaN(a) \/ IsNaN(g) THEN NaN
    ELSE LET ah == Abs(a) \div Unit
             al == Abs(a) % Unit
             gh == g \div Unit
             gl == g % Unit
         IN  Sgn(a) * (ah * g + al * gh + ((al * gl + Unit \div 2) \div Unit))

\* 10^(-(2^i)/Decade) * Unit, i = 0..11
PowTab == <<9993, 9986, 9971, 9943, 9886, 9772, 9550, 9120, 8318, 6918, 4786, 2291>>

RECURSIVE PowFrac(_, _, _)
\* 10^(-r/Decade) * Unit for 0 <= r < Decade: the product of the table
\* entries of r's binary digits
PowFrac(r, i, acc) ==
    IF i > Len(PowTab) THEN acc
    ELSE PowFrac(r \div 2, i + 1,
                 IF r % 2 = 1 THEN (acc * PowTab[i] + Unit \div 2) \div Unit ELSE acc)

RECURSIVE Pow10(_)
Pow10(k) == IF k = 0 THEN 1 ELSE 10 * Pow10(k - 1)

\* 10 ** (db / 20) for db in DbUnit units (lines 107, 215, 330, 415)
DbToLinear(q) ==
    IF q <= 0
    THEN LET d == (-q) \div Decade
             r == (-q) % Decade
         IN  IF d > 4 THEN 0 ELSE PowFrac(r, 1, Unit) \div Pow10(d)
    ELSE LET k == (q + Decade - 1) \div Decade
             r == k * Decade - q
         IN  Pow10(k) * PowFrac(r, 1, Unit)

RECURSIVE LogSearch(_, _, _)
\* the largest r in lo..hi with PowFrac(r) >= x, for Unit/10 < x <= Unit
LogSearch(x, lo, hi) ==
    IF lo >= hi THEN lo
    ELSE LET mid == (lo + hi + 1) \div 2
         IN  IF PowFrac(mid, 1, Unit) >= x THEN LogSearch(x, mid, hi)
             ELSE LogSearch(x, lo, mid - 1)

RECURSIVE LogNorm(_, _)
\* 20 * log10(x / Unit) in DbUnit units, x >= 1
LogNorm(x, dec) ==
    IF x > Unit THEN LogNorm((x + 5) \div 10, dec + 1)
    ELSE IF x * 10 <= Unit THEN LogNorm(x * 10, dec - 1)
    ELSE dec * Decade - LogSearch(x, 0, Decade - 1)

\* 20 * torch.log10(x + 1e-8) (line 405): the epsilon is below the
\* resolution of Unit and decides the result only at x = 0, where it is
\* 20 * log10(1e-8) = -160 dB
LinearToDb(x) ==
    IF IsNaN(x) THEN NaN
    ELSE IF x = 0 THEN -160 * DbUnit
    ELSE LogNorm(x, 0)

\* ------------------------------------------------------ program constants
n_fft == 2048
hop_length == n_fft \div 2
hann_max_gain_db == 12
subcomp_max_gain_db == 24
subcomp_min_gain_db == -24
threshold == -20
ratio == 4
knee == 5
makeup_gain == 5
brilliance_end_rfft == 20000

Bands == 1..7
BandName == <<"sub_bass", "bass", "low_mid", "mid", "upper_mid", "presence", "brilliance">>
\* the band table's fixed edges in Hz; brilliance ends at 20000 in
\* process_rfft and at sample_rate / 2 in the two STFT strategies
BandStart == <<20, 60, 250, 500, 2000, 4000, 6000>>
BandEndFixed == <<60, 250, 500, 2000, 4000, 6000, brilliance_end_rfft>>

Methods == {"rfft", "hann", "subcomp"}

\* ------------------------------------------------------------------ inputs
\* Sample counts: the short ones carry arbitrary rows (their DFT is exact
\* over the 4th roots of unity), the long ones carry constant rows (their
\* DFT and their Hann-windowed frames are exact as well).
ShortLengths == {1, 2, 4}
LongLengths == {hop_length, hop_length + 1, n_fft}
Lengths == ShortLengths \cup LongLengths
Levels == {1, 2, Unit \div 2, (12 * Unit) \div 10}
ShortLevels == {2, Unit \div 2, (12 * Unit) \div 10}
Patterns == {"dc", "impulse", "alt", "ramp"}
\* with 2 or 3 bins the short rates put a bin on every band edge; the long
\* rates put STFT bins on 20 Hz (40960) and 250 Hz (32000) and make the
\* brilliance band of the STFT strategies negative (8000), empty (12000) and
\* wide (44100)
ShortRates == {80, 240, 1000, 8000, 24000, 40000, 44100}
SampleRates == {8000, 12000, 32000, 40960, 44100}

Sample(p, a, n) ==
    CASE p = "dc" -> a
      [] p = "impulse" -> IF n = 1 THEN a ELSE 0
      [] p = "alt" -> IF n % 2 = 1 THEN a ELSE -a
      [] OTHER -> (n - 2) * a

\* row r of a waveform: odd rows at level a, even rows inverted at half level
MakeRow(p, a, r, n) ==
    [i \in 1..n |-> Sample(p, IF r % 2 = 1 THEN a ELSE -(a \div 2), i)]

RECURSIVE Prod(_)
Prod(s) == IF s = <<>> THEN 1 ELSE Head(s) * Prod(Tail(s))

Ones(k) == [i \in 1..k |-> 1]

\* a shape of rank nd ending in (b, c, n), or in as much of it as fits
MakeShape(nd, b, c, n) ==
    IF nd >= 3 THEN Ones(nd - 3) \o <<b, c, n>>
    ELSE SubSeq(<<b, c, n>>, 4 - nd, 3)

Leading(shape) == SubSeq(shape, 1, Len(shape) - 1)

MakeTensor(nd, b, c, n, p, a) ==
    LET shape == MakeShape(nd, b, c, n)
    IN  [shape |-> shape,
         rows |-> [r \in 1..Prod(Leading(shape)) |-> MakeRow(p, a, r, n)]]

NoTensor == [shape |-> <<>>, rows |-> <<>>]

ZeroGains == [b \in Bands |-> 0]
OneBand(i, g) == [b \in Bands |-> IF b = i THEN g ELSE 0]
AllBands(g) == [b \in Bands |-> g]
DistinctGains == [b \in Bands |-> 2 * b - 9]
GainChoices == {-MaxGainDb, -12, hann_max_gain_db + 1, MaxGainDb}
GainSweep == {OneBand(i, g) : i \in Bands, g \in GainChoices}
                \cup {AllBands(g) : g \in {-12, 12}}
FewGains == {ZeroGains, OneBand(1, 12), DistinctGains}

Audio(hw, it, t, hr, sr) ==
    [has_waveform |-> hw, is_tensor |-> it, waveform |-> t,
     has_sample_rate |-> hr, sample_rate |-> sr]

\* well-formed calls on short waveforms: every shape, pattern, level and
\* sample rate, a few gain vectors
ShortCall(a, g) ==
    \E b \in 1..MaxBatch, c \in 1..MaxChannels, n \in ShortLengths, p \in Patterns,
       lv \in ShortLevels, sr \in ShortRates :
        /\ g \in FewGains
        /\ a = Audio(TRUE, TRUE, MakeTensor(3, b, c, n, p, lv), TRUE, sr)

\* well-formed calls on long waveforms of constant rows: every shape at one
\* sample rate, and every level and sample rate on mono
LongCall(a, g) ==
    \/ \E b \in 1..MaxBatch, c \in 1..MaxChannels, n \in LongLengths :
        /\ g \in FewGains
        /\ a = Audio(TRUE, TRUE, MakeTensor(3, b, c, n, "dc", (12 * Unit) \div 10), TRUE, 44100)
    \/ \E lv \in Levels, sr \in SampleRates :
        /\ g \in FewGains
        /\ a = Audio(TRUE, TRUE, MakeTensor(3, 1, 1, n_fft, "dc", lv), TRUE, sr)

\* every gain vector on one mono signal per length class
GainCall(a, g) ==
    \E n \in {4, n_fft} :
        /\ g \in GainSweep
        /\ a = Audio(TRUE, TRUE, MakeTensor(3, 1, 1, n, "dc", Unit \div 2), TRUE, 44100)

\* calls the validation rejects
BadCall(a, g) ==
    /\ g = ZeroGains
    /\ \/ \E hw \in BOOLEAN, hr \in BOOLEAN :
            a = Audio(hw, TRUE, IF hw THEN MakeTensor(3, 1, 1, 4, "dc", Unit) ELSE NoTensor,
                      hr, IF hr THEN 44100 ELSE 0)
       \/ a = Audio(TRUE, FALSE, NoTensor, TRUE, 44100)
       \/ \E nd \in 1..MaxRank, b \in 1..MaxBatch, c \in 1..MaxChannels :
            a = Audio(TRUE, TRUE, MakeTensor(nd, b, c, 4, "ramp", Unit), TRUE, 44100)

\* ------------------------------------------------------- tensor helpers
Batch(t) == t.shape[1]
Channels(t) == t.shape[2]
LastDim(t) == t.shape[Len(t.shape)]
NumRows(t) == Len(t.rows)

RECURSIVE SumRange(_, _, _)
\* f[lo] + ... + f[hi], by halves
SumRange(f, lo, hi) ==
    IF lo > hi THEN 0
    ELSE IF lo = hi THEN f[lo]
    ELSE LET mid == (lo + hi) \div 2
         IN  SumRange(f, lo, mid) + SumRange(f, mid + 1, hi)

SumTo(f, n) == SumRange(f, 1, n)

\* max of two peaks; NaN as soon as one is NaN
MaxNaN(a, b) == IF IsNaN(a) \/ IsNaN(b) THEN NaN ELSE Max(a, b)

RECURSIVE MaxAbsRange(_, _, _)
\* the largest |f[i]|, lo <= i <= hi, by halves
MaxAbsRange(f, lo, hi) ==
    IF lo > hi THEN 0
    ELSE IF lo = hi THEN (IF IsNaN(f[lo]) THEN NaN ELSE Abs(f[lo]))
    ELSE LET mid == (lo + hi) \div 2
         IN  MaxNaN(MaxAbsRange(f, lo, mid), MaxAbsRange(f, mid + 1, hi))

RECURSIVE MaxAbsRows(_, _)
MaxAbsRows(rows, r) ==
    IF r = 0 THEN 0
    ELSE MaxNaN(MaxAbsRange(rows[r], 1, Len(rows[r])), MaxAbsRows(rows, r - 1))

\* torch.max(torch.abs(waveform)) over the whole buffer
PeakAbs(t) == MaxAbsRows(t.rows, Len(t.rows))

\* x / m * Unit for 0 <= x <= m, by two digits of base 100 to stay in 32 bits
Quotient(x, m) ==
    ((x * 100) \div m) * 100 + ((((x * 100) % m) * 100) \div m)

\* waveform / max_val (line 16), elementwise
ScaleDown(t, max_val) ==
    [t EXCEPT !.rows = [r \in DOMAIN t.rows |->
        [i \in DOMAIN t.rows[r] |->
            IF IsNaN(t.rows[r][i]) THEN NaN
            ELSE Sgn(t.rows[r][i]) * Quotient(Abs(t.rows[r][i]), max_val)]]]

\* normalize_waveform (lines 4-17): NaN > 1.0 is false
normalize_waveform(waveform) ==
    LET max_val == PeakAbs(waveform)
    IN  IF ~IsNaN(max_val) /\ max_val > Unit THEN ScaleDown(waveform, max_val)
        ELSE waveform

\* ------------------------------------------------------------ frequencies
\* torch.linspace(0, sample_rate / 2, steps = M)[k] = k * sample_rate / (2 * (M - 1)),
\* held as the numerator k * sample_rate over the denominator 2 * FreqDen(M);
\* a band edge given in half Hz (e2 = 2 * f) is e2 * FreqDen(M) on that scale
FreqDen(M) == Max(M - 1, 1)
FreqNum(k, sample_rate) == k * sample_rate
Edge(e2, M) == e2 * FreqDen(M)

\* ----------------------------------------------------------- process_rfft
\* e^(-2 pi i j / 4)
Root4(j) ==
    CASE j % 4 = 0 -> <<1, 0>>
      [] j % 4 = 1 -> <<0, -1>>
      [] j % 4 = 2 -> <<-1, 0>>
      [] OTHER -> <<0, 1>>

ExactLengths == {1, 2, 4}

\* torch.fft.rfft of one row (line 116): the DFT over the 4th roots of unity
\* for the short lengths; a longer row is constant, and its DFT is N * x at
\* bin 0 and 0 elsewhere
rfft_row(x) ==
    LET N == Len(x)
        M == N \div 2 + 1
    IN  [j \in 1..M |->
            IF N \in ExactLengths
            THEN <<SumTo([n \in 1..N |-> x[n] * Root4((4 \div N) * (j - 1) * (n - 1))[1]], N),
                   SumTo([n \in 1..N |-> x[n] * Root4((4 \div N) * (j - 1) * (n - 1))[2]], N)>>
            ELSE IF j = 1 THEN <<N * x[1], 0>> ELSE <<0, 0>>]

rfft(t) ==
    [shape |-> Leading(t.shape) \o <<LastDim(t) \div 2 + 1>>,
     rows |-> [r \in DOMAIN t.rows |-> rfft_row(t.rows[r])]]

\* Re(Y[k] e^(+2 pi i k m / n)), counted twice for the bins that stand for
\* their conjugate as well (all but DC and, for even n, Nyquist)
IrfftTerm(Y, k, m, n) ==
    LET root == Root4((4 \div n) * k * m)
        weight == IF k = 0 \/ 2 * k = n THEN 1 ELSE 2
    IN  weight * (Y[k + 1][1] * root[1] + Y[k + 1][2] * root[2])

\* torch.fft.irfft(Y, n = n) of one row (line 162)
irfft_row(Y, n) ==
    [i \in 1..n |->
        IF n \in ExactLengths
        THEN DivRound(SumTo([j \in 1..(n \div 2 + 1) |-> IrfftTerm(Y, j - 1, i - 1, n)],
                            n \div 2 + 1), n)
        ELSE DivRound(Y[1][1], n)]

\* a variant without n = num_samples: the length is the default 2 * (M - 1)
irfft_default_length(t, n) ==
    [shape |-> Leading(t.shape) \o <<2 * (LastDim(t) - 1)>>,
     rows |-> [r \in DOMAIN t.rows |-> irfft_row(t.rows[r], 2 * (LastDim(t) - 1))]]

irfft(t, n) ==
    [shape |-> Leading(t.shape) \o <<n>>,
     rows |-> [r \in DOMAIN t.rows |-> irfft_row(t.rows[r], n)]]

\* a variant whose bands include their upper edge
RfftMaskClosed(band, k, M, sample_rate) ==
    /\ FreqNum(k, sample_rate) >= Edge(2 * BandStart[band], M)
    /\ FreqNum(k, sample_rate) <= Edge(2 * BandEndFixed[band], M)

\* mask = (freq_bins >= f_start) & (freq_bins < f_end) at bin k (line 155)
RfftMask(band, k, M, sample_rate) ==
    /\ FreqNum(k, sample_rate) >= Edge(2 * BandStart[band], M)
    /\ FreqNum(k, sample_rate) < Edge(2 * BandEndFixed[band], M)

RECURSIVE RfftBinGain(_, _, _, _, _, _)
\* gain_factors[:, :, mask] *= gain, band after band in the given order
\* (lines 133-156), at bin k
RfftBinGain(order, i, k, M, sample_rate, gains) ==
    IF i = 0 THEN Unit
    ELSE LET before == RfftBinGain(order, i - 1, k, M, sample_rate, gains)
         IN  IF RfftMask(order[i], k, M, sample_rate)
             THEN MulFix(before, gains[order[i]])
             ELSE before

DictOrder == <<1, 2, 3, 4, 5, 6, 7>>

\* the gain-factor field of process_rfft; the same for every batch and channel
RfftGainFactors(M, sample_rate, gains) ==
    [j \in 1..M |-> RfftBinGain(DictOrder, 7, j - 1, M, sample_rate, gains)]

\* waveform_fft * gain_factors (line 159); the factors are real
ApplyComplex(t, factors) ==
    [t EXCEPT !.rows = [r \in DOMAIN t.rows |->
        [j \in DOMAIN t.rows[r] |->
            <<MulFix(t.rows[r][j][1], factors[j]), MulFix(t.rows[r][j][2], factors[j])>>]]]

\* ------------------------------------------- process_hann, process_subcomp
StftBins == n_fft \div 2 + 1

\* torch.stft(center=True, pad_mode='reflect') pads n_fft // 2 samples on both
\* sides by reflection, which torch refuses unless the pad is shorter than
\* the signal (lines 223-231, 338-346)
StftRaises(num_samples) == num_samples <= n_fft \div 2

NumFrames(num_samples) == 1 + num_samples \div hop_length

\* one frame of a constant row x under the periodic Hann window
\* w[n] = 1/2 - 1/4 e^(2 pi i n / N) - 1/4 e^(-2 pi i n / N): x * N / 2 at
\* bin 0, -x * N / 4 at bin 1, 0 elsewhere; the reflected padding of a
\* constant row is the same constant, so every frame is this column
StftColumn(x) ==
    [j \in 1..StftBins |->
        IF j = 1 THEN x * (n_fft \div 2)
        ELSE IF j = 2 THEN -x * (n_fft \div 4)
        ELSE 0]

\* waveform.view(-1, num_samples) then torch.stft: one column per row and
\* the frame count in the shape [batch * channels, freq_bins, time_frames]
stft(t) ==
    [shape |-> <<NumRows(t), StftBins, NumFrames(LastDim(t))>>,
     rows |-> [r \in DOMAIN t.rows |-> StftColumn(t.rows[r][1])]]

\* the band table of the STFT strategies in half Hz (lines 240-248, 355-363)
StftStart2(band) == 2 * BandStart[band]
StftEnd2(band, sample_rate) == IF band = 7 THEN sample_rate ELSE 2 * BandEndFixed[band]

\* center_freq = (f_start + f_end) / 2 (lines 255, 368)
CenterFreq(band, sample_rate) ==
    (Edge(StftStart2(band), StftBins) + Edge(StftEnd2(band, sample_rate), StftBins)) \div 2

\* bandwidth = (f_end - f_start) / 2, divisor bandwidth / 2 (lines 256-257)
HannBandwidth(band, sample_rate) ==
    (Edge(StftEnd2(band, sample_rate), StftBins) - Edge(StftStart2(band), StftBins)) \div 2

HannDivisor(band, sample_rate) == HannBandwidth(band, sample_rate) \div 2

\* bandwidth = f_end - f_start, f_end * 0.01 when that is 0, divisor
\* bandwidth / 2 (lines 369-373)
SubcompBandwidth(band, sample_rate) ==
    LET width == Edge(StftEnd2(band, sample_rate), StftBins) - Edge(StftStart2(band), StftBins)
    IN  IF width = 0 THEN Edge(StftEnd2(band, sample_rate), StftBins) \div 100 ELSE width

SubcompDivisor(band, sample_rate) == SubcompBandwidth(band, sample_rate) \div 2

Divisor(m, band, sample_rate) ==
    IF m = "hann" THEN HannDivisor(band, sample_rate) ELSE SubcompDivisor(band, sample_rate)

\* torch.exp(-0.5 * ((freq - center) / divisor) ** 2) (lines 257, 373).  A zero
\* divisor makes the quotient +-inf, and the profile 0, off the centre and
\* 0 / 0 = NaN on it; beyond 8 divisors the profile is below the resolution.
\* Otherwise z is taken in thousandths and exp(-z^2 / 2) = 10^(-z^2 * log10(e) / 2).
GaussProfile(freq, center, divisor) ==
    IF divisor = 0 THEN (IF freq = center THEN NaN ELSE 0)
    ELSE LET a == Abs(freq - center)
             d == Abs(divisor)
         IN  IF a >= 8 * d THEN 0
             ELSE LET s == d \div (2^17) + 1
                      z == ((a \div s) * 1000) \div (d \div s)
                      zz == (z * z) \div 1000
                  IN  DbToLinear(-((zz * 695) \div 1000))

\* the profiles of the sample rates in use, by strategy, sample rate, band, bin
ProfileTable ==
    [m \in {"hann", "subcomp"} |-> [sr \in SampleRates |-> [band \in Bands |->
        [j \in 1..StftBins |->
            GaussProfile(FreqNum(j - 1, sr), CenterFreq(band, sr), Divisor(m, band, sr))]]]]

\* gain_profile = 1 + (gain - 1) * profile (lines 258, 373)
GainProfile(gain, profile) ==
    IF IsNaN(profile) THEN NaN ELSE Unit + MulFix(gain - Unit, profile)

RECURSIVE StftBinGain(_, _, _, _, _)
\* gain_factors *= gain_profile, band after band (lines 251-259, 366-375), at bin j
StftBinGain(m, band, j, sample_rate, gains) ==
    IF band = 0 THEN Unit
    ELSE MulFix(StftBinGain(m, band - 1, j, sample_rate, gains),
                GainProfile(gains[band], ProfileTable[m][sample_rate][band][j]))

\* the gain-factor field of an STFT strategy; the same for every row and frame
StftGainFactors(m, sample_rate, gains) ==
    [j \in 1..StftBins |-> StftBinGain(m, 7, j, sample_rate, gains)]

\* waveform_stft * gain_factors (lines 262, 378)
ApplyReal(t, factors) ==
    [t EXCEPT !.rows = [r \in DOMAIN t.rows |->
        [j \in DOMAIN t.rows[r] |-> MulFix(t.rows[r][j], factors[j])]]]

ConstRow(v, length) == [i \in 1..length |-> v]

\* the frame's sample at its centre n = N / 2, N times over:
\* Y[0] + 2 * sum (-1)^k Y[k] + (-1)^(N/2) Y[N/2]
CentreSum(col) ==
    SumRange([j \in 1..StftBins |->
                (IF j = 1 \/ j = StftBins THEN 1 ELSE 2)
                * (IF j % 2 = 1 THEN 1 ELSE -1) * col[j]], 1, StftBins)

\* torch.istft(length = length) of one row (lines 265-272, 426-433).  At a
\* frame centre the window is 1 and the neighbouring frames weigh 0, so the
\* overlap-add is the frame's own sample there; the samples between centres
\* depend on cos(2 pi n / N) and are held at the value of their frame's
\* centre.  A NaN bin makes every sample of the frame NaN.
istft_row(col, length) ==
    ConstRow(IF IsNaN(MaxAbsRange(col, 1, StftBins)) THEN NaN
             ELSE DivRound(CentreSum(col), n_fft), length)

\* torch.istft then .view(batch_size, channels, num_samples) (lines 275, 436)
istft(t, batch_size, channels, num_samples) ==
    [shape |-> <<batch_size, channels, num_samples>>,
     rows |-> [r \in DOMAIN t.rows |-> istft_row(t.rows[r], num_samples)]]

\* a variant of the bass mask that leaves out its lower edge
BassMaskAbove(k, sample_rate) ==
    IF /\ FreqNum(k, sample_rate) > Edge(2 * BandStart[1], StftBins)
       /\ FreqNum(k, sample_rate) <= Edge(2 * BandEndFixed[2], StftBins)
    THEN Unit ELSE 0

\* ------------------------------------------- the compressor of process_subcomp
\* bass_mask: 1.0 where sub_bass start <= freq <= bass end (lines 392-394)
BassMask(k, sample_rate) ==
    IF /\ FreqNum(k, sample_rate) >= Edge(2 * BandStart[1], StftBins)
       /\ FreqNum(k, sample_rate) <= Edge(2 * BandEndFixed[2], StftBins)
    THEN Unit ELSE 0

\* torch.abs and torch.angle of a spectral value (lines 398-399); the spectra
\* of the constant rows are real, so the angle is 0 or pi, held as the
\* direction exp(1j * phase) = +1 or -1
Magnitude(v) == IF IsNaN(v) THEN NaN ELSE Abs(v)
Phase(v) == IF v < 0 /\ ~IsNaN(v) THEN -1 ELSE 1

\* (1 / ratio - 1) * (over + knee / 2) ** 2 / (2 * knee) (line 412)
KneeCurve(over) ==
    LET s == over + (knee * DbUnit) \div 2
    IN  -DivRound((ratio - 1) * s * s, ratio * 2 * knee * DbUnit)

\* (1 / ratio - 1) * over (line 413)
FullCurve(over) == -DivRound((ratio - 1) * over, ratio)

\* a variant that writes the two curves in the other order
CompressionAmountKneeLast(over) ==
    LET mask1 == 2 * over > -(knee * DbUnit)
        mask2 == 2 * over > knee * DbUnit
        first == IF mask2 THEN FullCurve(over) ELSE 0
    IN  IF mask1 THEN KneeCurve(over) ELSE first

\* compression_amount: zeros, then the knee curve written where
\* over > -knee / 2, then the full curve written over it where
\* over > knee / 2 (lines 409-413)
CompressionAmount(over) ==
    LET zeros == 0
        mask1 == 2 * over > -(knee * DbUnit)
        mask2 == 2 * over > knee * DbUnit
        first == IF mask1 THEN KneeCurve(over) ELSE zeros
    IN  IF mask2 THEN FullCurve(over) ELSE first

\* magnitude_compressed * (1 + gain_reduction_linear * bass_mask) (line 417)
Blend(magnitude, gain_reduction_linear, bass_mask) ==
    MulFix(magnitude, Unit + MulFix(gain_reduction_linear, bass_mask))

\* lines 391-417 on one row: every intermediate tensor, by bin
CompressRow(col, sample_rate) ==
    LET mask == [j \in 1..StftBins |-> BassMask(j - 1, sample_rate)]
        mag == [j \in 1..StftBins |-> Magnitude(col[j])]
        over == [j \in 1..StftBins |->
                    LinearToDb(MulFix(mag[j], mask[j])) - threshold * DbUnit]
        amount == [j \in 1..StftBins |-> CompressionAmount(over[j])]
        lin == [j \in 1..StftBins |-> DbToLinear(amount[j])]
    IN  [magnitude |-> mag,
         phase |-> [j \in 1..StftBins |-> Phase(col[j])],
         over_threshold |-> over,
         compression_amount |-> amount,
         gain_reduction_linear |-> lin,
         magnitude_compressed |-> [j \in 1..StftBins |-> Blend(mag[j], lin[j], mask[j])]]

\* magnitude_compressed * makeup_gain_linear, then
\* magnitude_compressed * torch.exp(1j * phase) (lines 420-423)
Reconstruct(c) ==
    [j \in 1..StftBins |->
        MulFix(c.magnitude_compressed[j], DbToLinear(makeup_gain * DbUnit)) * c.phase[j]]

NoComp == [bass_mask |-> <<>>, rows |-> <<>>]

\* ------------------------------------------------------------ gain clamps
\* the dB value each strategy converts to linear scale
\* (lines 107-113, 204-213, 317-327)
ClampRfft(g) == g
ClampHann(g) == Min(g, hann_max_gain_db)
\* a variant of the subcomp clamp without its lower bound
ClampUpperOnly(g) == Min(g, subcomp_max_gain_db)
ClampSubcomp(g) == Max(Min(g, subcomp_max_gain_db), subcomp_min_gain_db)

ClampFor(m, g) ==
    CASE m = "rfft" -> ClampRfft(g)
      [] m = "hann" -> ClampHann(g)
      [] OTHER -> ClampSubcomp(g)

\* ------------------------------------------------------------------- state
VARIABLES
    pc,             \* position in the call
    method,         \* the strategy process() dispatches to
    audio_input,    \* the call's audio_input dictionary
    gain_args,      \* the seven *_gain_db arguments, by band
    gains_db,       \* the dB gains converted to linear scale, by band
    gains_linear,   \* 10 ** (gain_db / 20), by band
    spectrum,       \* waveform_fft or waveform_stft
    gain_factors,   \* the gain-factor field, by bin
    spectrum_eq,    \* waveform_fft_eq or waveform_stft_eq
    comp,           \* the compressor's tensors: bass_mask by bin, the rest by row
    waveform_eq,    \* the inverse transform's result, before normalization
    work,           \* the transform steps run so far
    equalized_audio,\* the returned dictionary, once returned
    error,          \* the exception raised, if any
    probe           \* the compressor curve on its own: an overshoot and its amount

vars == <<pc, method, audio_input, gain_args, gains_db, gains_linear, spectrum,
          gain_factors, spectrum_eq, comp, waveform_eq, work, equalized_audio, error,
          probe>>

NoError == [kind |-> "none", message |-> "", arg |-> 0, stage |-> "none"]
NoAudio == [returned |-> FALSE, waveform |-> NoTensor, sample_rate |-> 0]

NoProbe == [applied |-> FALSE, over_threshold |-> 0, compression_amount |-> 0]

Idle ==
    /\ pc = "idle"
    /\ method = "none"
    /\ audio_input = Audio(FALSE, FALSE, NoTensor, FALSE, 0)
    /\ gain_args = ZeroGains
    /\ gains_db = <<>>
    /\ gains_linear = <<>>
    /\ spectrum = NoTensor
    /\ gain_factors = <<>>
    /\ spectrum_eq = NoTensor
    /\ comp = NoComp
    /\ waveform_eq = NoTensor
    /\ work = <<>>
    /\ equalized_audio = NoAudio
    /\ error = NoError

Init == Idle /\ probe = NoProbe

\* process (lines 43-60): dispatch on method
process ==
    /\ pc = "idle"
    /\ method' \in Methods
    /\ \/ ShortCall(audio_input', gain_args')
       \/ LongCall(audio_input', gain_args')
       \/ GainCall(audio_input', gain_args')
       \/ BadCall(audio_input', gain_args')
    /\ pc' = "validate"
    /\ UNCHANGED <<gains_db, gains_linear, spectrum, gain_factors, spectrum_eq,
                   waveform_eq, comp, work, equalized_audio, error, probe>>

\* a variant of the input checks without the channel check
ValidationErrorAnyChannels(a) ==
    IF ~a.has_waveform \/ ~a.has_sample_rate
    THEN [kind |-> "ValueError",
          message |-> "Input audio must contain 'waveform' and 'sample_rate'.",
          arg |-> 0, stage |-> "validate"]
    ELSE IF ~a.is_tensor
    THEN [kind |-> "TypeError", message |-> "Waveform must be a torch.Tensor.",
          arg |-> 0, stage |-> "validate"]
    ELSE IF Len(a.waveform.shape) # 3
    THEN [kind |-> "ValueError",
          message |-> "Waveform must be a 3D tensor with shape (batch, channels, samples).",
          arg |-> 0, stage |-> "validate"]
    ELSE NoError

\* the exception the input checks raise, NoError when the input passes
\* (lines 89-104, 186-201, 299-314: the same checks in the three strategies)
ValidationError(a) ==
    IF ~a.has_waveform \/ ~a.has_sample_rate
    THEN [kind |-> "ValueError",
          message |-> "Input audio must contain 'waveform' and 'sample_rate'.",
          arg |-> 0, stage |-> "validate"]
    ELSE IF ~a.is_tensor
    THEN [kind |-> "TypeError", message |-> "Waveform must be a torch.Tensor.",
          arg |-> 0, stage |-> "validate"]
    ELSE IF Len(a.waveform.shape) # 3
    THEN [kind |-> "ValueError",
          message |-> "Waveform must be a 3D tensor with shape (batch, channels, samples).",
          arg |-> 0, stage |-> "validate"]
    ELSE IF a.waveform.shape[2] \notin {1, 2}
    THEN [kind |-> "ValueError",
          message |-> "Unsupported number of channels: {channels}. Only mono and stereo are supported.",
          arg |-> a.waveform.shape[2], stage |-> "validate"]
    ELSE NoError

validate ==
    /\ pc = "validate"
    /\ LET e == ValidationError(audio_input)
       IN  IF e.kind # "none"
           THEN error' = e /\ pc' = "raised"
           ELSE error' = error /\ pc' = "gains"
    /\ UNCHANGED <<method, audio_input, gain_args, gains_db, gains_linear, spectrum,
                   gain_factors, spectrum_eq, comp, waveform_eq, work, equalized_audio, probe>>

\* the clamp and the conversion to linear scale (lines 106-113, 203-215, 316-330)
convert_gains ==
    /\ pc = "gains"
    /\ gains_db' = [b \in Bands |-> ClampFor(method, gain_args[b])]
    /\ gains_linear' = [b \in Bands |-> DbToLinear(gains_db'[b] * DbUnit)]
    /\ pc' = "forward"
    /\ UNCHANGED <<method, audio_input, gain_args, spectrum, gain_factors,
                   spectrum_eq, comp, waveform_eq, work, equalized_audio, error, probe>>

\* lines 115-116
forward_rfft ==
    /\ pc = "forward" /\ method = "rfft"
    /\ spectrum' = rfft(audio_input.waveform)
    /\ work' = Append(work, "rfft")
    /\ pc' = "field"
    /\ UNCHANGED <<method, audio_input, gain_args, gains_db, gains_linear,
                   gain_factors, spectrum_eq, comp, waveform_eq, equalized_audio, error, probe>>

\* lines 118-156
field_rfft ==
    /\ pc = "field" /\ method = "rfft"
    /\ gain_factors' = RfftGainFactors(LastDim(spectrum), audio_input.sample_rate,
                                       gains_linear)
    /\ work' = Append(work, "gain_factors")
    /\ pc' = "apply"
    /\ UNCHANGED <<method, audio_input, gain_args, gains_db, gains_linear,
                   spectrum, spectrum_eq, comp, waveform_eq, equalized_audio, error, probe>>

\* line 159
apply_rfft ==
    /\ pc = "apply" /\ method = "rfft"
    /\ spectrum_eq' = ApplyComplex(spectrum, gain_factors)
    /\ work' = Append(work, "apply")
    /\ pc' = "inverse"
    /\ UNCHANGED <<method, audio_input, gain_args, gains_db, gains_linear,
                   spectrum, gain_factors, comp, waveform_eq, equalized_audio, error, probe>>

\* lines 161-162
inverse_rfft ==
    /\ pc = "inverse" /\ method = "rfft"
    /\ waveform_eq' = irfft(spectrum_eq, LastDim(audio_input.waveform))
    /\ work' = Append(work, "irfft")
    /\ pc' = "normalize"
    /\ UNCHANGED <<method, audio_input, gain_args, gains_db, gains_linear,
                   spectrum, gain_factors, spectrum_eq, comp, equalized_audio, error, probe>>

\* lines 217-231, 332-346
forward_stft ==
    /\ pc = "forward" /\ method \in {"hann", "subcomp"}
    /\ IF StftRaises(LastDim(audio_input.waveform))
       THEN /\ error' = [kind |-> "RuntimeError",
                         message |-> "Padding size should be less than the corresponding input dimension",
                         arg |-> LastDim(audio_input.waveform), stage |-> "stft"]
            /\ pc' = "raised"
            /\ UNCHANGED <<spectrum, work>>
       ELSE /\ spectrum' = stft(audio_input.waveform)
            /\ work' = Append(work, "stft")
            /\ pc' = "field"
            /\ UNCHANGED error
    /\ UNCHANGED <<method, audio_input, gain_args, gains_db, gains_linear,
                   gain_factors, spectrum_eq, comp, waveform_eq, equalized_audio, probe>>

\* lines 233-259, 348-375
field_stft ==
    /\ pc = "field" /\ method \in {"hann", "subcomp"}
    /\ gain_factors' = StftGainFactors(method, audio_input.sample_rate, gains_linear)
    /\ work' = Append(work, "gain_factors")
    /\ pc' = "apply"
    /\ UNCHANGED <<method, audio_input, gain_args, gains_db, gains_linear,
                   spectrum, spectrum_eq, comp, waveform_eq, equalized_audio, error, probe>>

\* lines 262, 378
apply_stft ==
    /\ pc = "apply" /\ method \in {"hann", "subcomp"}
    /\ spectrum_eq' = ApplyReal(spectrum, gain_factors)
    /\ work' = Append(work, "apply")
    /\ pc' = IF method = "subcomp" THEN "compress" ELSE "inverse"
    /\ UNCHANGED <<method, audio_input, gain_args, gains_db, gains_linear,
                   spectrum, gain_factors, comp, waveform_eq, equalized_audio, error, probe>>

\* lines 380-423
compress ==
    /\ pc = "compress"
    /\ comp' = [bass_mask |-> [j \in 1..StftBins |-> BassMask(j - 1, audio_input.sample_rate)],
                rows |-> [r \in DOMAIN spectrum_eq.rows |->
                            CompressRow(spectrum_eq.rows[r], audio_input.sample_rate)]]
    /\ spectrum_eq' = [spectrum_eq EXCEPT !.rows =
                        [r \in DOMAIN spectrum_eq.rows |-> Reconstruct(comp'.rows[r])]]
    /\ work' = Append(work, "compress")
    /\ pc' = "inverse"
    /\ UNCHANGED <<method, audio_input, gain_args, gains_db, gains_linear,
                   spectrum, gain_factors, waveform_eq, equalized_audio, error, probe>>

\* lines 264-275, 425-436
inverse_stft ==
    /\ pc = "inverse" /\ method \in {"hann", "subcomp"}
    /\ waveform_eq' = istft(spectrum_eq, Batch(audio_input.waveform),
                            Channels(audio_input.waveform), LastDim(audio_input.waveform))
    /\ work' = Append(work, "istft")
    /\ pc' = "normalize"
    /\ UNCHANGED <<method, audio_input, gain_args, gains_db, gains_linear,
                   spectrum, gain_factors, spectrum_eq, comp, equalized_audio, error, probe>>

\* the normalization and the return (lines 164-173, 277-286, 438-447)
finish ==
    /\ pc = "normalize"
    /\ equalized_audio' = [returned |-> TRUE,
                           waveform |-> normalize_waveform(waveform_eq),
                           sample_rate |-> audio_input.sample_rate]
    /\ work' = Append(work, "normalize")
    /\ pc' = "returned"
    /\ UNCHANGED <<method, audio_input, gain_args, gains_db, gains_linear,
                   spectrum, gain_factors, spectrum_eq, comp, waveform_eq, error, probe>>

Next ==
    \/ process
    \/ validate
    \/ convert_gains
    \/ forward_rfft
    \/ field_rfft
    \/ apply_rfft
    \/ inverse_rfft
    \/ forward_stft
    \/ field_stft
    \/ apply_stft
    \/ compress
    \/ inverse_stft
    \/ finish

Spec == Init /\ [][Next]_vars

\* ------------------------------------------- the compressor curve on its own
\* every overshoot within MaxOverDb of the threshold, in DbUnit steps
KneeInit ==
    /\ Idle
    /\ \E over \in (-MaxOverDb * DbUnit)..(MaxOverDb * DbUnit) :
        probe = [applied |-> FALSE, over_threshold |-> over, compression_amount |-> 0]

\* lines 408-414 on one element
apply_curve ==
    /\ ~probe.applied
    /\ probe' = [probe EXCEPT !.applied = TRUE,
                              !.compression_amount = CompressionAmount(probe.over_threshold)]
    /\ UNCHANGED <<pc, method, audio_input, gain_args, gains_db, gains_linear, spectrum,
                   gain_factors, spectrum_eq, comp, waveform_eq, work, equalized_audio,
                   error>>

KneeNext == apply_curve

KneeSpec == KneeInit /\ [][KneeNext]_vars
\* ------------------------------------------------------------- properties
InputWaveform == audio_input.waveform
Output == equalized_audio.waveform

\* the input passes the checks of the three strategies
WellFormed ==
    /\ audio_input.has_waveform /\ audio_input.has_sample_rate
    /\ audio_input.is_tensor
    /\ Len(InputWaveform.shape) = 3
    /\ InputWaveform.shape[2] \in {1, 2}

RaisedInValidation == pc = "raised" /\ error.stage = "validate"

C5_EffectiveGains ==
    gains_db # <<>> =>
        \A b \in Bands :
            LET g == gain_args[b]
                effective ==
                    CASE method = "rfft" -> g
                      [] method = "hann" -> IF g > 12 THEN 12 ELSE g
                      [] OTHER -> IF g > 24 THEN 24 ELSE IF g < -24 THEN -24 ELSE g
            IN  /\ gains_db[b] = effective
                /\ gains_linear[b] = DbToLinear(effective * DbUnit)

\* subcomp has clamped a request below -24 dB
C5_Witness ==
    /\ method = "subcomp" /\ gains_db # <<>>
    /\ \E b \in Bands : gain_args[b] < -24 /\ gains_db[b] = -24

\* C10: with knee = 5 and ratio = 4 the compression amount is 0 for
\* over <= -knee / 2, (1 / ratio - 1) * (over + knee / 2)^2 / (2 * knee) for
\* -knee / 2 < over <= knee / 2 and (1 / ratio - 1) * over for over > knee / 2;
\* it is never positive, and the last two agree at over = knee / 2.
C10_SoftKnee ==
    probe.applied =>
        LET over == probe.over_threshold
            half == (5 * DbUnit) \div 2
            delta ==
                IF over <= -half THEN 0
                ELSE IF over <= half
                THEN -DivRound(3 * (over + half) * (over + half), 4 * 2 * 5 * DbUnit)
                ELSE -DivRound(3 * over, 4)
        IN  /\ probe.compression_amount = delta
            /\ probe.compression_amount <= 0
            /\ over = half => probe.compression_amount = FullCurve(over)

\* the curve has been applied at the upper end of the knee
C10_Witness ==
    /\ probe.applied
    /\ 2 * probe.over_threshold = knee * DbUnit
    /\ probe.compression_amount < 0
\* C1 as stated: on every input that passes the checks, with at least one
\* sample and a positive sample rate, each strategy returns (it raises
\* nothing) a waveform of the input's batch size, channel count and sample
\* count, the STFT strategies too for sample counts up to 1024.
C1_ShapePreserved ==
    (/\ pc # "idle" /\ WellFormed
     /\ LastDim(InputWaveform) > 0 /\ audio_input.sample_rate > 0) =>
        /\ pc # "raised"
        /\ pc = "returned" =>
            /\ Output.shape = InputWaveform.shape
            /\ Len(Output.rows) = Len(InputWaveform.rows)
            /\ \A r \in DOMAIN Output.rows : Len(Output.rows[r]) = LastDim(InputWaveform)

\* C2 as stated: whenever a call returns, the peak absolute sample of the
\* returned waveform is at most 1.0.
C2_PeakAtMostOne ==
    pc = "returned" =>
        \A r \in DOMAIN Output.rows : \A i \in DOMAIN Output.rows[r] :
            /\ ~IsNaN(Output.rows[r][i])
            /\ Abs(Output.rows[r][i]) <= Unit

BandOrders == {DictOrder, <<7, 6, 5, 4, 3, 2, 1>>, <<4, 1, 7, 2, 6, 3, 5>>}

\* C6 as stated: with all gains at 0 dB (both STFT gain fields are ones, so
\* the uncompressed magnitude is that of the transform), every bin within
\* [20, 250] Hz whose magnitude is above the -20 dB threshold has a lower
\* magnitude after the compression step, before makeup gain.
C6_CompressionLowers ==
    (method = "subcomp" /\ pc = "inverse" /\ gain_args = ZeroGains) =>
        \A r \in DOMAIN comp.rows : \A j \in 1..StftBins :
            LET num == (j - 1) * audio_input.sample_rate
                den == 2 * (StftBins - 1)
                uncompressed == Abs(spectrum.rows[r][j])
            IN  (/\ 20 * den <= num /\ num <= 250 * den
                 /\ LinearToDb(uncompressed) > threshold * DbUnit) =>
                    comp.rows[r].magnitude_compressed[j] < uncompressed

\* C7: in process_rfft at most one band selects a bin; the bin's gain factor
\* is that band's linear gain, and 1.0 when no band selects it, as for every
\* bin at or above 20000 Hz; the field does not depend on the order of the
\* bands.
C7_RfftMasks ==
    (method = "rfft" /\ pc = "apply") =>
        LET M == Len(gain_factors)
            sample_rate == audio_input.sample_rate
        IN  \A j \in 1..M :
                LET num == (j - 1) * sample_rate
                    den == 2 * (IF M > 1 THEN M - 1 ELSE 1)
                    selecting == {b \in Bands : /\ BandStart[b] * den <= num
                                                /\ num < BandEndFixed[b] * den}
                IN  /\ Cardinality(selecting) <= 1
                    /\ selecting = {} => gain_factors[j] = Unit
                    /\ \A b \in selecting : gain_factors[j] = gains_linear[b]
                    /\ num >= 20000 * den => gain_factors[j] = Unit
                    /\ \A order \in BandOrders :
                        RfftBinGain(order, 7, j - 1, M, sample_rate, gains_linear)
                            = gain_factors[j]

\* a field with distinct gains per band: a brilliance bin carries the
\* brilliance gain and the bin at the Nyquist frequency, above 20000 Hz, 1.0
C7_Witness ==
    /\ method = "rfft" /\ pc = "apply"
    /\ audio_input.sample_rate = 44100
    /\ Len(gain_factors) = hop_length + 1
    /\ gains_linear[7] # Unit
    /\ gain_factors[500] = gains_linear[7]
    /\ gain_factors[hop_length + 1] = Unit
    /\ gain_factors[3] = gains_linear[1] /\ gains_linear[1] # gains_linear[7]

\* C8 as stated: in both STFT strategies the divisor of every band's Gaussian
\* profile is non-zero at every sample rate, so the gain-factor field is
\* built without a division by zero.
C8_DivisorNonZero ==
    (method \in {"hann", "subcomp"} /\ gain_factors # <<>>) =>
        /\ \A b \in Bands : Divisor(method, b, audio_input.sample_rate) # 0
        /\ \A j \in DOMAIN gain_factors : ~IsNaN(gain_factors[j])

==========================================================================
